---- MODULE Spec2Model ----
(***************************************************************************)
(* Planchette motion engine of ouij-ai: the zustand store (useOuijaStore), *)
(* the requestAnimationFrame scheduler (usePlanchetteAnimation), the chat  *)
(* callbacks (useAIChat) and the components that drive them.               *)
(*                                                                         *)
(* Positions are fixed-point: one unit is 1/100 of a percent of the board. *)
(* Pixel offsets of LETTER_COORDS are in 1/100 pixel.  Time is in ms.      *)
(* React commits a store update and flushes the passive effects of the     *)
(* animation hook in the same microtask, before any frame callback can     *)
(* run, so a store action and the effect cleanup/re-run it causes form one *)
(* step.                                                                   *)
(***************************************************************************)
EXTENDS Integers, Sequences, FiniteSets, TLC

VARIABLES
  store,         \* the zustand store (useOuijaStore)
  frames,        \* pending requestAnimationFrame registrations
  hasCleanup,    \* the animation effect's last run returned a cleanup
  startPosRef,   \* hook ref: start of the current move
  targetPosRef,  \* hook ref: target of the current move
  sinceStart,    \* Date.now() - startTimeRef.current
  streams,       \* number of chat requests whose response is open
  letterEvents,  \* letters events delivered so far
  submits,       \* questions submitted so far
  op,            \* the last handler that ran, with its argument
  sse            \* sendChatMessage: the response and the reader's locals

vars == <<store, frames, hasCleanup, startPosRef, targetPosRef, sinceStart,
          streams, letterEvents, submits, op, sse>>

-----------------------------------------------------------------------------
(* Bounds of the model *)

MaxLen == 2
MaxSubmits == 1
MaxLetterEvents == 2
TimeStep == 800
GridN == 4
FineUnit == 10
MaxMsgLen == 3

Symbols == {"H", "I"}
Questions == {<<"q">>}

\* the lists a letters event may carry: the empty list and the alternations
\* of the two symbols, up to MaxLen symbols
LetterLists ==
  {[i \in 1..n |-> IF i % 2 = 1 THEN c[1] ELSE c[2]] :
     n \in 0..MaxLen, c \in {<<"H", "I">>, <<"I", "H">>}}

-----------------------------------------------------------------------------
(* Program constants *)

BASE_MOVE_DURATION == 1200
MIN_DURATION == 800
MAX_DURATION == 2000
PAUSE_DURATION == 500
boardWidth == 1920
boardHeight == 1282

Min(a, b) == IF a <= b THEN a ELSE b
Max(a, b) == IF a >= b THEN a ELSE b

RECURSIVE SqrtBits(_, _, _)
SqrtBits(n, r, b) ==
  IF b = 0 THEN r
  ELSE IF (r + b) * (r + b) <= n THEN SqrtBits(n, r + b, b \div 2)
       ELSE SqrtBits(n, r, b \div 2)

\* Math.sqrt, rounded down, for 0 <= n < 2^30; the argument is evaluated once
Sqrt(n) == CHOOSE r \in {SqrtBits(v, 0, 16384) : v \in {n}} : TRUE

-----------------------------------------------------------------------------
(* Coordinate table and projector *)

Undefined == "undefined"

LETTER_COORDS ==
  [c \in {"A", "B", "C", "D", "E", "F", "G", "H", "I", "J", "K", "L", "M",
          "N", "O", "P", "Q", "R", "S", "T", "U", "V", "W", "X", "Y", "Z",
          "1", "2", "3", "4", "5", "6", "7", "8", "9", "0", " ", "YES", "NO",
          "GOODBYE"} |->
     CASE c = "A" -> [x |-> -54825, y |-> -10431]
       [] c = "B" -> [x |-> -46900, y |-> -19165]
       [] c = "C" -> [x |-> -39138, y |-> -25472]
       [] c = "D" -> [x |-> -30890, y |-> -30000]
       [] c = "E" -> [x |-> -21510, y |-> -34043]
       [] c = "F" -> [x |-> -10997, y |-> -36631]
       [] c = "G" -> [x |-> -2264, y |-> -37278]
       [] c = "H" -> [x |-> 8733, y |-> -37440]
       [] c = "I" -> [x |-> 19084, y |-> -35337]
       [] c = "J" -> [x |-> 25876, y |-> -32750]
       [] c = "K" -> [x |-> 36065, y |-> -27898]
       [] c = "L" -> [x |-> 46254, y |-> -20297]
       [] c = "M" -> [x |-> 54016, y |-> -12372]
       [] c = "N" -> [x |-> -53046, y |-> 13019]
       [] c = "O" -> [x |-> -46739, y |-> 5580]
       [] c = "P" -> [x |-> -39946, y |-> -1213]
       [] c = "Q" -> [x |-> -32345, y |-> -5580]
       [] c = "R" -> [x |-> -22156, y |-> -10593]
       [] c = "S" -> [x |-> -12129, y |-> -13342]
       [] c = "T" -> [x |-> -1779, y |-> -14475]
       [] c = "U" -> [x |-> 9380, y |-> -13828]
       [] c = "V" -> [x |-> 18922, y |-> -12210]
       [] c = "W" -> [x |-> 29919, y |-> -7682]
       [] c = "X" -> [x |-> 39299, y |-> -1213]
       [] c = "Y" -> [x |-> 46415, y |-> 5256]
       [] c = "Z" -> [x |-> 51914, y |-> 11563]
       [] c = "1" -> [x |-> -38006, y |-> 16577]
       [] c = "2" -> [x |-> -30728, y |-> 17224]
       [] c = "3" -> [x |-> -22803, y |-> 17224]
       [] c = "4" -> [x |-> -14555, y |-> 17709]
       [] c = "5" -> [x |-> -7601, y |-> 17871]
       [] c = "6" -> [x |-> 0, y |-> 17224]
       [] c = "7" -> [x |-> 7439, y |-> 16739]
       [] c = "8" -> [x |-> 15364, y |-> 16739]
       [] c = "9" -> [x |-> 23612, y |-> 16577]
       [] c = "0" -> [x |-> 33801, y |-> 16577]
       [] c = " " -> [x |-> -1132, y |-> 1536]
       [] c = "YES" -> [x |-> -79892, y |-> -47305]
       [] c = "NO" -> [x |-> 82642, y |-> -49569]
       [] c = "GOODBYE" -> [x |-> -1294, y |-> 44556]]

\* Strings handed to the lookup; "" is the empty string
Strings ==
  {"H", "I", " ", "YES", "NO", "GOODBYE", "h", "yes", "Yes", "no", "goodbye",
   "%", ""}

\* The characters of a string
CharsOf(s) ==
  CASE s = "YES" -> <<"Y", "E", "S">>
    [] s = "NO" -> <<"N", "O">>
    [] s = "GOODBYE" -> <<"G", "O", "O", "D", "B", "Y", "E">>
    [] s = "yes" -> <<"y", "e", "s">>
    [] s = "Yes" -> <<"Y", "e", "s">>
    [] s = "no" -> <<"n", "o">>
    [] s = "goodbye" -> <<"g", "o", "o", "d", "b", "y", "e">>
    [] s = "" -> <<>>
    [] OTHER -> <<s>>

\* String.prototype.toUpperCase on one character
UpperChar(c) ==
  CASE c = "a" -> "A" [] c = "b" -> "B" [] c = "c" -> "C" [] c = "d" -> "D"
    [] c = "e" -> "E" [] c = "f" -> "F" [] c = "g" -> "G" [] c = "h" -> "H"
    [] c = "i" -> "I" [] c = "j" -> "J" [] c = "k" -> "K" [] c = "l" -> "L"
    [] c = "m" -> "M" [] c = "n" -> "N" [] c = "o" -> "O" [] c = "p" -> "P"
    [] c = "q" -> "Q" [] c = "r" -> "R" [] c = "s" -> "S" [] c = "t" -> "T"
    [] c = "u" -> "U" [] c = "v" -> "V" [] c = "w" -> "W" [] c = "x" -> "X"
    [] c = "y" -> "Y" [] c = "z" -> "Z"
    [] OTHER -> c

\* String.prototype.toUpperCase: character by character
UpperCased(s) ==
  LET upper == [i \in DOMAIN CharsOf(s) |-> UpperChar(CharsOf(s)[i])]
  IN  IF \E u \in Strings : CharsOf(u) = upper
      THEN CHOOSE u \in Strings : CharsOf(u) = upper
      ELSE s

\* the upper-cased forms of the strings examined, computed once
UpperCasedStrings == [s \in Strings |-> UpperCased(s)]

toUpperCase(s) == IF s \in Strings THEN UpperCasedStrings[s] ELSE UpperCased(s)


\* a lookup that forgets toUpperCase
getLetterCoordCaseSensitive(char) ==
  IF char \in DOMAIN LETTER_COORDS THEN LETTER_COORDS[char]
  ELSE LETTER_COORDS[" "]

getLetterCoord(char) ==
  LET upperChar == toUpperCase(char)
  IN  IF upperChar \in DOMAIN LETTER_COORDS THEN LETTER_COORDS[upperChar]
      ELSE LETTER_COORDS[" "]

coordToPercent(coord, w, h) ==
  [x |-> 5000 + (coord.x * 100) \div w, y |-> 5000 + (coord.y * 100) \div h]

Center == [x |-> 5000, y |-> 5000]

\* Characters of a queue element, for Array.prototype.join(''): undefined
\* joins as the empty string
Chars(s) == IF s = Undefined THEN <<>> ELSE CharsOf(s)

RECURSIVE Join(_)
Join(q) == IF q = <<>> THEN <<>> ELSE Chars(Head(q)) \o Join(Tail(q))

-----------------------------------------------------------------------------
(* Easing and curve engine; t is a percentage 0..100 *)

easeOutCubic(t) == 100 - ((100 - t) * (100 - t) * (100 - t)) \div 10000


\* an easing that forgets its second branch
easeInOutCubicOneBranch(t) == (4 * t * t * t) \div 10000

easeInOutCubic(t) ==
  IF t < 50 THEN (4 * t * t * t) \div 10000
  ELSE 100 - ((200 - 2 * t) * (200 - 2 * t) * (200 - 2 * t)) \div 20000

Distance(a, b) ==
  Sqrt((b.x - a.x) * (b.x - a.x) + (b.y - a.y) * (b.y - a.y))

\* baseCurveFactor / sqrt(min(dist / 50, 3)), in 1/1000
CurveFactor(dist) ==
  LET norm == Min(2 * dist, 30000)        \* min(dist/50, 3) in 1/10000
  IN  25000 \div Max(Sqrt(norm), 1)

\* Values used more than once are bound once, as members of singleton sets.
\* unit is the number of position units in 1/100 percent: the store keeps
\* positions at unit 1
ControlPointAt(unit, start, end) ==
  LET dx == end.x - start.x
      dy == end.y - start.y
  IN  CHOOSE p \in
        {[x |-> (start.x + end.x) \div 2 + ((0 - dy) * cf) \div 1000,
          y |-> (start.y + end.y) \div 2 + (dx * cf) \div 1000] :
           cf \in {CurveFactor(Distance(start, end) \div unit)}} : TRUE

ControlPoint(start, end) == ControlPointAt(1, start, end)

\* a curve without the early return for coincident points
bezierCurveAtNoEpsilon(unit, start, end, t) ==
  LET u == 100 - t
  IN  CHOOSE p \in
        {[x |-> (u * u * start.x + 2 * u * t * c.x + t * t * end.x)
                  \div 10000,
          y |-> (u * u * start.y + 2 * u * t * c.y + t * t * end.y)
                  \div 10000] :
           c \in {ControlPointAt(unit, start, end)}} : TRUE

\* dist < 0.01 is Distance < unit
bezierCurveAt(unit, start, end, t) ==
  IF Distance(start, end) < unit THEN [x |-> start.x, y |-> start.y]
  ELSE LET u == 100 - t
       IN  CHOOSE p \in
             {[x |-> (u * u * start.x + 2 * u * t * c.x + t * t * end.x)
                       \div 10000,
               y |-> (u * u * start.y + 2 * u * t * c.y + t * t * end.y)
                       \div 10000] :
                c \in {ControlPointAt(unit, start, end)}} : TRUE

bezierCurve(start, end, t) == bezierCurveAt(1, start, end, t)

\* The heading is kept as the arguments of atan2: the tangent vector
ZeroAngle == [tx |-> 0, ty |-> 0]

bezierTangentAngle(start, end, t) ==
  IF Distance(start, end) < 1 THEN ZeroAngle
  ELSE CHOOSE a \in
         {[tx |-> (2 * (100 - t) * (c.x - start.x)
                     + 2 * t * (end.x - c.x)) \div 100,
           ty |-> (2 * (100 - t) * (c.y - start.y)
                     + 2 * t * (end.y - c.y)) \div 100] :
            c \in {ControlPoint(start, end)}} : TRUE

-----------------------------------------------------------------------------
(* useOuijaStore: initial state and actions, as functions of the state *)

NoError == "null"
NoName == "null"

InitialStore ==
  [planchette |-> [position |-> Center, rotation |-> ZeroAngle],
   animation |-> [isAnimating |-> FALSE, letterQueue |-> <<>>,
                  revealedLetters |-> <<>>, currentLetterIndex |-> 0],
   turn |-> "user",
   userMessage |-> <<>>,
   conversationHistory |-> <<>>,
   spiritName |-> NoName,
   hasCompletedIntro |-> FALSE,
   errorMessage |-> NoError]

movePlanchette(s, position, rotation) ==
  [s EXCEPT !.planchette = [position |-> position, rotation |-> rotation]]


\* an enqueue that keeps the letters revealed so far
queueLettersKeepsRevealed(s, letters) ==
  [s EXCEPT !.animation = [@ EXCEPT !.isAnimating = TRUE,
                                    !.letterQueue = letters,
                                    !.currentLetterIndex = 0],
            !.turn = "animating"]

\* an enqueue that leaves the turn alone
queueLettersKeepsTurn(s, letters) ==
  [s EXCEPT !.animation = [isAnimating |-> TRUE, letterQueue |-> letters,
                           revealedLetters |-> <<>>,
                           currentLetterIndex |-> 0]]

queueLetters(s, letters) ==
  [s EXCEPT !.animation = [isAnimating |-> TRUE, letterQueue |-> letters,
                           revealedLetters |-> <<>>,
                           currentLetterIndex |-> 0],
            !.turn = "animating"]

\* letterQueue[currentLetterIndex]; out of range reads undefined
LetterAt(q, i) == IF i + 1 \in DOMAIN q THEN q[i + 1] ELSE Undefined


\* a reveal that hands the turn back after every letter
revealNextLetterHandsBackTurn(s) ==
  LET a == s.animation
      nextIndex == a.currentLetterIndex + 1
      letter == LetterAt(a.letterQueue, a.currentLetterIndex)
      revealed == Append(a.revealedLetters, letter)
  IN  IF nextIndex >= Len(a.letterQueue)
      THEN [s EXCEPT !.animation = [a EXCEPT !.isAnimating = FALSE,
                                             !.revealedLetters = revealed],
                     !.conversationHistory =
                        Append(@, [role |-> "assistant",
                                   content |-> Join(revealed)]),
                     !.turn = "user"]
      ELSE [s EXCEPT !.animation = [a EXCEPT !.currentLetterIndex = nextIndex,
                                             !.revealedLetters = revealed],
                     !.turn = "user"]

\* a reveal whose completion test is off by one
revealNextLetterOffByOne(s) ==
  LET a == s.animation
      nextIndex == a.currentLetterIndex + 1
      letter == LetterAt(a.letterQueue, a.currentLetterIndex)
      revealed == Append(a.revealedLetters, letter)
  IN  IF nextIndex > Len(a.letterQueue)
      THEN [s EXCEPT !.animation = [a EXCEPT !.isAnimating = FALSE,
                                             !.revealedLetters = revealed],
                     !.conversationHistory =
                        Append(@, [role |-> "assistant",
                                   content |-> Join(revealed)]),
                     !.turn = "user"]
      ELSE [s EXCEPT !.animation = [a EXCEPT !.currentLetterIndex = nextIndex,
                                             !.revealedLetters = revealed]]

revealNextLetter(s) ==
  LET a == s.animation
      nextIndex == a.currentLetterIndex + 1
      letter == LetterAt(a.letterQueue, a.currentLetterIndex)
      revealed == Append(a.revealedLetters, letter)
  IN  IF nextIndex >= Len(a.letterQueue)
      THEN [s EXCEPT !.animation = [a EXCEPT !.isAnimating = FALSE,
                                             !.revealedLetters = revealed],
                     !.conversationHistory =
                        Append(@, [role |-> "assistant",
                                   content |-> Join(revealed)]),
                     !.turn = "user"]
      ELSE [s EXCEPT !.animation = [a EXCEPT !.currentLetterIndex = nextIndex,
                                             !.revealedLetters = revealed]]


\* a clear that also sends the pointer back to the centre
clearAnimationRecentres(s) ==
  [s EXCEPT !.animation = [isAnimating |-> FALSE, letterQueue |-> <<>>,
                           revealedLetters |-> <<>>,
                           currentLetterIndex |-> 0],
            !.planchette = [position |-> Center, rotation |-> ZeroAngle]]

clearAnimation(s) ==
  [s EXCEPT !.animation = [isAnimating |-> FALSE, letterQueue |-> <<>>,
                           revealedLetters |-> <<>>,
                           currentLetterIndex |-> 0]]

submitQuestion(s, message) ==
  [s EXCEPT !.userMessage = message, !.turn = "spirit"]

addToHistory(s, message) ==
  [s EXCEPT !.conversationHistory = Append(@, message)]

setTurn(s, t) == [s EXCEPT !.turn = t]

setError(s, e) == [s EXCEPT !.errorMessage = e]

setSpiritName(s, name) == [s EXCEPT !.spiritName = name]

completeIntro(s) == [s EXCEPT !.hasCompletedIntro = TRUE]

resetSession(s) == InitialStore

-----------------------------------------------------------------------------
(* useAIChat: the callbacks handed to sendChatMessage *)


\* a letters callback that also stores the message at once
onLettersAddsToHistory(s, letters) ==
  addToHistory(queueLetters(s, letters),
               [role |-> "assistant", content |-> Join(letters)])

onLetters(s, letters) == queueLetters(s, letters)


\* an error callback that forgets setTurn('user')
onErrorKeepsTurn(s, error) == clearAnimation(setError(s, error))

onError(s, error) == clearAnimation(setTurn(setError(s, error), "user"))

-----------------------------------------------------------------------------
(* Input handlers *)


\* a key handler without the turn check
handleKeyPressAnyTurn(s, m) ==
  addToHistory(submitQuestion(s, m), [role |-> "user", content |-> m])

\* useOuijaSession.handleKeyPress, Enter with a non-empty buffer
handleKeyPress(s, m) ==
  IF s.turn # "user" THEN s
  ELSE addToHistory(submitQuestion(s, m), [role |-> "user", content |-> m])

\* ChatPanel.handleSendMessage
handleSendMessage(s, m) ==
  IF ~(s.turn = "user" /\ m # <<>>) THEN s
  ELSE LET h == s.conversationHistory
           duplicate == /\ h # <<>>
                        /\ h[Len(h)].role = "user"
                        /\ h[Len(h)].content = m
           added == IF duplicate THEN s
                    ELSE addToHistory(s, [role |-> "user", content |-> m])
       IN  submitQuestion(added, m)

\* ChatPanel: the effect that submits the voice transcript m once
\* listening has stopped
submitTranscript(s, m) ==
  IF ~(m # <<>> /\ s.turn = "user") THEN s
  ELSE LET h == s.conversationHistory
           duplicate == /\ h # <<>>
                        /\ h[Len(h)].role = "user"
                        /\ h[Len(h)].content = m
           added == IF duplicate THEN s
                    ELSE addToHistory(s, [role |-> "user", content |-> m])
       IN  submitQuestion(added, m)

\* AppContent.handleIntroComplete
handleIntroComplete(s, name) == completeIntro(setSpiritName(s, name))

-----------------------------------------------------------------------------
(* usePlanchetteAnimation: the effect and its cleanup *)


\* a duration that is scaled but not clamped
MoveDurationUnclamped(dist) == (BASE_MOVE_DURATION * dist) \div 3000

\* clamp(BASE_MOVE_DURATION * min(distance / 30, 2)); dist in 1/100 percent
MoveDuration(dist) ==
  Max(MIN_DURATION,
      Min(MAX_DURATION, (BASE_MOVE_DURATION * Min(dist, 6000)) \div 3000))


\* a tip test that forgets toUpperCase
shouldUseTipPointerCaseSensitive(char) == char \in {"YES", "NO", "GOODBYE"}

shouldUseTipPointer(char) == toUpperCase(char) \in {"YES", "NO", "GOODBYE"}

TIP_OFFSET_PERCENT == [x |-> 0, y |-> -50]

\* offsetDistance = (TIP_OFFSET_PERCENT.y / 100) * 18, in 1/100 percent
OffsetDistance == TIP_OFFSET_PERCENT.y * 18

\* (sin(angleRad), -cos(angleRad)) * offsetDistance, where angle is
\* atan2(ty, tx) + 90 degrees: sin(angleRad) = tx / |t| and
\* -cos(angleRad) = ty / |t|; the angle 0 of coincident points gives (0, -1)
RotatedTipOffset(angle) ==
  LET n == Sqrt(angle.tx * angle.tx + angle.ty * angle.ty)
  IN  IF angle = ZeroAngle THEN [x |-> 0, y |-> 0 - OffsetDistance]
      ELSE [x |-> (OffsetDistance * angle.tx) \div n,
            y |-> (OffsetDistance * angle.ty) \div n]

\* animate, moving phase: the position and the angle handed to
\* movePlanchette for the cycle of currentLetter
MovingFrame(currentLetter, start, target, duration, elapsed) ==
  LET progress == Min((elapsed * 100) \div duration, 100)
  IN  CHOOSE frame \in
        {[position |->
            IF shouldUseTipPointer(currentLetter)
            THEN CHOOSE p \in {[x |-> curve.x + offset.x,
                                y |-> curve.y + offset.y] :
                                 offset \in {RotatedTipOffset(angle)}} : TRUE
            ELSE curve,
          angle |-> angle] :
           curve \in {bezierCurve(start, target, easeOutCubic(progress))},
           angle \in {bezierTangentAngle(start, target,
                                         easeInOutCubic(progress))}} : TRUE


\* a cleanup that cancels nothing
CleanupNothing(fs) == fs

\* the cleanup: cancelAnimationFrame(animationFrameRef.current); the ref
\* holds the id of the registration made last
Cleanup(fs) == {f \in fs : ~f.latest}

\* registrations that outlive the effect run that made them
Outlived(fs) == {[f EXCEPT !.stale = TRUE] : f \in fs}

\* animationFrameRef.current = requestAnimationFrame(animate)
Register(fs, f) ==
  {[g EXCEPT !.latest = FALSE] : g \in fs} \cup {[f EXCEPT !.latest = TRUE]}


\* early returns that forget the empty queue and the missing letter
EffectIdleOnlyWhenStopped(s) == ~s.animation.isAnimating

\* the early returns of the effect
EffectIdle(s) ==
  \/ ~s.animation.isAnimating
  \/ Len(s.animation.letterQueue) = 0
  \/ LetterAt(s.animation.letterQueue, s.animation.currentLetterIndex)
       = Undefined

\* the closure the effect creates for the current letter
NewCycle(s) ==
  LET currentLetter ==
        LetterAt(s.animation.letterQueue, s.animation.currentLetterIndex)
      target == coordToPercent(getLetterCoord(currentLetter),
                               boardWidth, boardHeight)
  IN  [latest |-> TRUE, stale |-> FALSE, phase |-> "moving",
       sincePause |-> 0, letter |-> currentLetter,
       moveDuration |->
         MoveDuration(Distance(s.planchette.position, target))]

\* the effect body, run against the committed store s
EffectBody(s, fs) ==
  IF EffectIdle(s)
  THEN /\ frames' = fs
       /\ hasCleanup' = FALSE
       /\ UNCHANGED <<startPosRef, targetPosRef, sinceStart>>
  ELSE /\ startPosRef' = s.planchette.position
       /\ targetPosRef' =
            coordToPercent(getLetterCoord(NewCycle(s).letter),
                           boardWidth, boardHeight)
       /\ sinceStart' = 0
       /\ frames' = Register(fs, NewCycle(s))
       /\ hasCleanup' = TRUE

\* the dependencies of the effect: isAnimating, currentLetterIndex and the
\* identity of the letterQueue array (newQueue: the handler installed a new
\* array)
DepsChanged(s, newQueue) ==
  \/ newQueue
  \/ s.animation.isAnimating # store.animation.isAnimating
  \/ s.animation.currentLetterIndex # store.animation.currentLetterIndex

\* a trigger effect that does not look at the turn
SendsRequestInAnyTurn(s) ==
  /\ s.hasCompletedIntro
  /\ s.userMessage # <<>>
  /\ \/ ~store.hasCompletedIntro
     \/ s.turn # store.turn
     \/ s.userMessage # store.userMessage
     \/ s.conversationHistory # store.conversationHistory
     \/ s.spiritName # store.spiritName

\* OuijaBoard: the effect that sends the chat request runs on mount and when
\* turn, userMessage, conversationHistory or spiritName changed
SendsRequest(s) ==
  /\ s.hasCompletedIntro
  /\ s.turn = "spirit"
  /\ s.userMessage # <<>>
  /\ \/ ~store.hasCompletedIntro
     \/ s.turn # store.turn
     \/ s.userMessage # store.userMessage
     \/ s.conversationHistory # store.conversationHistory
     \/ s.spiritName # store.spiritName

\* A handler left the store at s, the pending registrations at fs and open
\* responses.  React commits: OuijaBoard is mounted iff hasCompletedIntro;
\* on mount the effects run, on unmount the cleanup runs, and while mounted
\* a changed dependency runs the cleanup and then the effect body again.
\* c and g are the values of s and fs.
Commit(s, fs, open, newQueue) ==
  \E c \in {s}, g \in {fs} :
    /\ store' = c
    /\ streams' = IF SendsRequest(c) THEN open + 1 ELSE open
    /\ CASE store.hasCompletedIntro /\ c.hasCompletedIntro ->
              IF DepsChanged(c, newQueue)
              THEN EffectBody(c, Outlived(IF hasCleanup THEN Cleanup(g)
                                          ELSE g))
              ELSE /\ frames' = g
                   /\ UNCHANGED <<hasCleanup, startPosRef, targetPosRef,
                                  sinceStart>>
         [] ~store.hasCompletedIntro /\ c.hasCompletedIntro ->
              EffectBody(c, g)
         [] store.hasCompletedIntro /\ ~c.hasCompletedIntro ->
              /\ frames' = Outlived(IF hasCleanup THEN Cleanup(g) ELSE g)
              /\ hasCleanup' = FALSE
              /\ UNCHANGED <<startPosRef, targetPosRef, sinceStart>>
         [] OTHER ->
              /\ frames' = g
              /\ UNCHANGED <<hasCleanup, startPosRef, targetPosRef,
                             sinceStart>>

-----------------------------------------------------------------------------
(* The response of /api/chat: formatSSE on the server, sendChatMessage in  *)
(* the browser.  A string is a sequence of characters, a chunk a sequence  *)
(* of bytes.  A character outside ASCII is written by its code point:      *)
(* "U+00E9", "U+2028" (LINE SEPARATOR).                                    *)

MaxEvents == 2

CharCode ==
  ("\n" :> 10) @@ (" " :> 32) @@ ("\"" :> 34) @@ ("," :> 44) @@
  (":" :> 58) @@ ("H" :> 72) @@ ("I" :> 73) @@ ("[" :> 91) @@
  ("\\" :> 92) @@ ("]" :> 93) @@ ("a" :> 97) @@ ("d" :> 100) @@
  ("e" :> 101) @@ ("k" :> 107) @@ ("l" :> 108) @@ ("n" :> 110) @@
  ("o" :> 111) @@ ("r" :> 114) @@ ("s" :> 115) @@ ("t" :> 116) @@
  ("v" :> 118) @@ ("x" :> 120) @@ ("{" :> 123) @@ ("}" :> 125) @@
  ("U+00E9" :> 233) @@ ("U+2028" :> 8232)

ReplacementChar == "U+FFFD"

Nothing == "nothing"

fromCodePoint(cp) ==
  IF \E c \in DOMAIN CharCode : CharCode[c] = cp
  THEN CHOOSE c \in DOMAIN CharCode : CharCode[c] = cp
  ELSE ReplacementChar

\* the spelling of the identifiers and literals of the source
Word ==
  [event |-> <<"e", "v", "e", "n", "t">>,
   data |-> <<"d", "a", "t", "a">>,
   token |-> <<"t", "o", "k", "e", "n">>,
   letters |-> <<"l", "e", "t", "t", "e", "r", "s">>,
   done |-> <<"d", "o", "n", "e">>,
   error |-> <<"e", "r", "r", "o", "r">>]

RECURSIVE Flatten(_)
Flatten(seqs) ==
  IF seqs = <<>> THEN <<>>
  ELSE IF Len(seqs) = 1 THEN seqs[1]
  ELSE Flatten(SubSeq(seqs, 1, Len(seqs) \div 2))
         \o Flatten(SubSeq(seqs, (Len(seqs) \div 2) + 1, Len(seqs)))

\* JSON.stringify of a string value
Quote(s) ==
  <<"\"">>
    \o Flatten([i \in 1..Len(s) |->
                  CASE s[i] = "\"" -> <<"\\", "\"">>
                    [] s[i] = "\\" -> <<"\\", "\\">>
                    [] s[i] = "\n" -> <<"\\", "n">>
                    [] OTHER -> <<s[i]>>])
    \o <<"\"">>

\* JSON.stringify of the payloads the handler sends: {token: text},
\* {letters}, {} and {error: message}; data is [key, value], key "none"
\* for the empty object
stringify(data) ==
  CASE data.key = "none" -> <<"{", "}">>
    [] data.key = "letters" ->
         <<"{">> \o Quote(Word[data.key]) \o <<":", "[">>
           \o Flatten([i \in 1..Len(data.value) |->
                         (IF i = 1 THEN <<>> ELSE <<",">>)
                           \o Quote(<<data.value[i]>>)])
           \o <<"]", "}">>
    [] OTHER ->
         <<"{">> \o Quote(Word[data.key]) \o <<":">> \o Quote(data.value)
           \o <<"}">>

formatSSE(event, data) ==
  Word.event \o <<":", " ">> \o Word[event] \o <<"\n">>
    \o Word.data \o <<":", " ">> \o stringify(data) \o <<"\n", "\n">>

\* TextEncoder.encode: UTF-8, code points of the basic plane
encode(s) ==
  Flatten([i \in 1..Len(s) |->
             LET cp == CharCode[s[i]]
             IN  IF cp < 128 THEN <<cp>>
                 ELSE IF cp < 2048
                 THEN <<192 + (cp \div 64), 128 + (cp % 64)>>
                 ELSE <<224 + (cp \div 4096), 128 + ((cp \div 64) % 64),
                        128 + (cp % 64)>>])

\* events before the end of a response: text deltas and spelled messages
Events ==
  {[event |-> "token", data |-> [key |-> "token",
                                 value |-> <<"U+00E9", "\n">>]],
   [event |-> "token", data |-> [key |-> "token",
                                 value |-> <<"a", "U+2028">>]],
   [event |-> "letters", data |-> [key |-> "letters",
                                   value |-> <<"H", "I">>]]}

\* the event that ends a response: done, or error from the catch block
LastEvents ==
  {[event |-> "done", data |-> [key |-> "none", value |-> <<>>]],
   [event |-> "error", data |-> [key |-> "error", value |-> <<"x">>]]}

\* the handler enqueues tokens and letters, then done or error, and closes
Responses ==
  UNION {{Append(events, last) : events \in [1..n -> Events],
                                 last \in LastEvents}
           : n \in 0..(MaxEvents - 1)}

\* the bytes the handler enqueues for a response, one chunk per event
Enqueued(events) ==
  [i \in 1..Len(events) |-> encode(formatSSE(events[i].event,
                                             events[i].data))]

ResponseBytes == [events \in Responses |-> Flatten(Enqueued(events))]

\* offset of the last byte of the i-th event of a response
EventEnds ==
  [events \in Responses |->
     [i \in 1..Len(events) |->
        Len(Flatten(SubSeq(Enqueued(events), 1, i)))]]

\* decoder.decode(value, {stream: true}): the text decoded from the bytes
\* of value after the bytes of an unfinished sequence the decoder held back
\* from the last chunk (pending); a sequence the chunk cuts is held back in
\* turn.  Sequences of one to three bytes.
decode(pending, value) ==
  LET all == pending \o value
      IsLead2(j) == j >= 1 /\ all[j] \in 192..223
      IsLead3(j) == j >= 1 /\ all[j] \in 224..239
      IsCont(j) == j >= 1 /\ all[j] \in 128..191
      \* byte j is the second byte of a three-byte sequence
      IsMiddle(j) == IsCont(j) /\ IsLead3(j - 1)
      \* the sequence byte j would continue is unfinished
      open(j) == IsLead2(j - 1) \/ IsLead3(j - 1) \/ IsMiddle(j - 1)
      \* what byte j ends: nothing, a character, or a sequence cut short
      cut(j) == IF open(j) /\ ~IsCont(j) THEN ReplacementChar ELSE Nothing
      out(j) ==
        CASE all[j] < 128 -> fromCodePoint(all[j])
          [] IsCont(j) ->
               IF IsLead2(j - 1)
               THEN fromCodePoint((all[j - 1] - 192) * 64 + (all[j] - 128))
               ELSE IF IsMiddle(j - 1)
               THEN fromCodePoint((all[j - 2] - 224) * 4096
                                    + (all[j - 1] - 128) * 64
                                    + (all[j] - 128))
               ELSE IF IsLead3(j - 1) THEN Nothing
               ELSE ReplacementChar
          [] IsLead2(j) \/ IsLead3(j) -> Nothing
          [] OTHER -> ReplacementChar
      IsChar(c) == c # Nothing
      n == Len(all)
  IN  [text |-> SelectSeq([k \in 1..(2 * Len(value)) |->
                             IF k % 2 = 1
                             THEN cut(Len(pending) + (k + 1) \div 2)
                             ELSE out(Len(pending) + k \div 2)], IsChar),
       pending |-> IF IsLead2(n) \/ IsLead3(n) THEN <<all[n]>>
                   ELSE IF IsMiddle(n) THEN <<all[n - 1], all[n]>>
                   ELSE <<>>]

\* buffer.split('\n\n'): the separators are found from left to right, so in
\* a run of newlines they start at its first, third, fifth ... character
splitBlankLines(buffer) ==
  LET run(i) == CHOOSE j \in 1..i :
                  /\ \A k \in j..i : buffer[k] = "\n"
                  /\ j = 1 \/ buffer[j - 1] # "\n"
      seps == {i \in 1..(Len(buffer) - 1) :
                 /\ buffer[i] = "\n" /\ buffer[i + 1] = "\n"
                 /\ (i - run(i)) % 2 = 0}
      sep(k) == CHOOSE i \in seps : Cardinality({j \in seps : j < i}) = k - 1
  IN  [k \in 1..(Cardinality(seps) + 1) |->
         SubSeq(buffer,
                IF k = 1 THEN 1 ELSE sep(k - 1) + 2,
                IF k = Cardinality(seps) + 1 THEN Len(buffer)
                ELSE sep(k) - 1)]

\* a mutant of pop: the text after the last blank line is thrown away
popDropped(lines) == <<>>

\* lines.pop() || ''
pop(lines) == lines[Len(lines)]

\* the line terminators of a regular expression
LineTerminators == {"\n", "U+2028"}

\* line.trim() is empty
IsBlank(line) ==
  \A i \in 1..Len(line) : line[i] \in {" "} \cup LineTerminators

NoMatch == [null |-> TRUE]

\* line.match(/^field: (.+)$/m)[1]: the rest of the first line of the piece
\* that starts with "field: " and goes on for at least one character; ^, $
\* and the dot stop at every line terminator
match(line, field) ==
  LET prefix == Word[field] \o <<":", " ">>
      starts == {p \in 1..Len(line) :
                   /\ p = 1 \/ line[p - 1] \in LineTerminators
                   /\ p + Len(prefix) <= Len(line)
                   /\ SubSeq(line, p, p + Len(prefix) - 1) = prefix
                   /\ line[p + Len(prefix)] \notin LineTerminators}
  IN  IF starts = {} THEN NoMatch
      ELSE \* the leftmost match, up to the end of its line
           LET p == CHOOSE q \in starts : \A r \in starts : q <= r
               first == p + Len(prefix)
               ends == {j \in first..Len(line) : line[j] \in LineTerminators}
               last == IF ends = {} THEN Len(line)
                       ELSE (CHOOSE j \in ends : \A k \in ends : j <= k) - 1
           IN  SubSeq(line, first, last)

Payloads == {e.data : e \in Events \cup LastEvents}

SyntaxError == [throws |-> "SyntaxError"]

\* JSON.parse, the inverse of JSON.stringify on the payloads
Stringified == [d \in Payloads |-> stringify(d)]

parse(text) ==
  IF \E d \in Payloads : Stringified[d] = text
  THEN CHOOSE d \in Payloads : Stringified[d] = text
  ELSE SyntaxError

\* data.token, data.letters, data.error
Field(data, key) == IF data.key = key THEN data.value ELSE Undefined

\* the switch of sendChatMessage: the callback an event invokes
Callback(event, data) ==
  CASE event = Word.token -> <<<<"onToken", Field(data, "token")>>>>
    [] event = Word.letters -> <<<<"onLetters", Field(data, "letters")>>>>
    [] event = Word.done -> <<<<"onDone">>>>
    [] event = Word.error -> <<<<"onError", Field(data, "error")>>>>
    [] OTHER -> <<>>

\* the body of the for loop for one piece that matched both patterns:
\* the callbacks invoked so far, and whether JSON.parse threw
Deliver(eventMatch, dataMatch, calls) ==
  CHOOSE r \in {IF data = SyntaxError
                THEN [calls |-> calls, threw |-> TRUE]
                ELSE [calls |-> calls \o Callback(eventMatch, data),
                      threw |-> FALSE] : data \in {parse(dataMatch)}} : TRUE

\* the for loop over the complete pieces of one read, from piece i on
RECURSIVE Dispatch(_, _, _)
Dispatch(lines, i, calls) ==
  IF i > Len(lines) THEN [calls |-> calls, threw |-> FALSE]
  ELSE IF IsBlank(lines[i]) THEN Dispatch(lines, i + 1, calls)
  ELSE CHOOSE r \in
         {IF eventMatch = NoMatch \/ dataMatch = NoMatch
          THEN Dispatch(lines, i + 1, calls)
          ELSE CHOOSE s \in
                 {IF d.threw THEN d ELSE Dispatch(lines, i + 1, d.calls)
                    : d \in {Deliver(eventMatch, dataMatch, calls)}} : TRUE
            : eventMatch \in {match(lines[i], "event")},
              dataMatch \in {match(lines[i], "data")}} : TRUE

\* the callbacks a response calls for, event by event
Callbacks(events) ==
  Flatten([i \in 1..Len(events) |->
             Callback(Word[events[i].event], events[i].data)])

NoResponse ==
  [status |-> "idle", response |-> <<>>, pos |-> 0, pending |-> <<>>,
   buffer |-> <<>>, calls |-> <<>>]

-----------------------------------------------------------------------------
Init ==
  /\ store = InitialStore
  /\ frames = {}
  /\ hasCleanup = FALSE
  /\ startPosRef = Center
  /\ targetPosRef = Center
  /\ sinceStart = 0
  /\ streams = 0
  /\ letterEvents = 0
  /\ submits = 0
  /\ op = <<"init">>
  /\ sse = NoResponse

CompleteIntro ==
  /\ ~store.hasCompletedIntro
  /\ Commit(handleIntroComplete(store, "spirit"), frames, streams, FALSE)
  /\ UNCHANGED <<letterEvents, submits>>
  /\ UNCHANGED sse
  /\ op' = <<"completeIntro">>

\* the window keydown listener of useOuijaSession
SubmitKey(m) ==
  /\ handleKeyPress(store, m) # store
  /\ submits < MaxSubmits
  /\ Commit(handleKeyPress(store, m), frames, streams, FALSE)
  /\ submits' = submits + 1
  /\ UNCHANGED letterEvents
  /\ UNCHANGED sse
  /\ op' = <<"submitKey">>

\* the send button, the Enter key and the voice transcript of ChatPanel
SubmitChat(m) ==
  /\ store.hasCompletedIntro
  /\ submits < MaxSubmits
  /\ \E next \in {handleSendMessage(store, m), submitTranscript(store, m)} :
       /\ next # store
       /\ Commit(next, frames, streams, FALSE)
  /\ submits' = submits + 1
  /\ UNCHANGED letterEvents
  /\ UNCHANGED sse
  /\ op' = <<"submitChat">>

\* sendChatMessage dispatches a letters event
OnLetters(letters) ==
  /\ streams > 0
  /\ letterEvents < MaxLetterEvents
  /\ Commit(onLetters(store, letters), frames, streams, TRUE)
  /\ letterEvents' = letterEvents + 1
  /\ UNCHANGED submits
  /\ UNCHANGED sse
  /\ op' = <<"onLetters", letters>>

\* sendChatMessage dispatches an error event; the server then closes
OnError ==
  /\ streams > 0
  /\ Commit(onError(store, "error"), frames, streams - 1, TRUE)
  /\ UNCHANGED <<letterEvents, submits>>
  /\ UNCHANGED sse
  /\ op' = <<"onError">>

\* sendChatMessage dispatches the done event: onDone does nothing
OnDone ==
  /\ streams > 0
  /\ streams' = streams - 1
  /\ UNCHANGED <<store, frames, hasCleanup, startPosRef, targetPosRef,
                 sinceStart, letterEvents, submits>>
  /\ UNCHANGED sse
  /\ op' = <<"onDone">>

\* sendChatMessage throws (fetch rejects, status not ok, no body, a read
\* fails): the mutation rejects and no callback runs
RequestFails ==
  /\ streams > 0
  /\ streams' = streams - 1
  /\ UNCHANGED <<store, frames, hasCleanup, startPosRef, targetPosRef,
                 sinceStart, letterEvents, submits>>
  /\ UNCHANGED sse
  /\ op' = <<"requestFails">>

\* the "New seance" button of ChatPanel
ResetSession ==
  /\ store.hasCompletedIntro
  /\ Commit(resetSession(store), frames, streams, TRUE)
  /\ UNCHANGED <<letterEvents, submits>>
  /\ UNCHANGED sse
  /\ op' = <<"resetSession">>

\* the clock advances between frame callbacks
AdvanceTime ==
  /\ frames # {}
  /\ sinceStart' = Min(sinceStart + TimeStep, MAX_DURATION)
  /\ frames' = {[f EXCEPT !.sincePause =
                    IF f.phase = "paused"
                    THEN Min(@ + TimeStep, PAUSE_DURATION) ELSE @]
                : f \in frames}
  /\ \/ sinceStart' # sinceStart
     \/ frames' # frames
  /\ UNCHANGED <<store, hasCleanup, startPosRef, targetPosRef, streams,
                 letterEvents, submits>>
  /\ UNCHANGED sse
  /\ op' = <<"advanceTime">>

\* a move that is over as soon as it starts
MoveOverAtOnce(f) == TRUE

\* progress >= 1
MoveOver(f) == sinceStart >= f.moveDuration


\* a pause that is over as soon as it starts
PauseOverAtOnce(f) == TRUE

\* pauseElapsed >= PAUSE_DURATION
PauseOver(f) == f.sincePause >= PAUSE_DURATION

\* animate, moving phase: movePlanchette along the curve, enter the pause
\* when the move is over, schedule the next frame
TickMoving(f) ==
  /\ f \in frames
  /\ f.phase = "moving"
  /\ \E frame \in {MovingFrame(f.letter, startPosRef, targetPosRef,
                                f.moveDuration, sinceStart)} :
       LET next == IF MoveOver(f)
                   THEN [f EXCEPT !.phase = "paused", !.sincePause = 0]
                   ELSE f
       IN  Commit(movePlanchette(store, frame.position, frame.angle),
                  Register(frames \ {f}, next), streams, FALSE)
  /\ UNCHANGED <<letterEvents, submits>>
  /\ UNCHANGED sse
  /\ op' = <<"tickMoving">>

\* animate, paused phase, pause not over: schedule the next frame
TickPaused(f) ==
  /\ f \in frames
  /\ f.phase = "paused"
  /\ ~PauseOver(f)
  /\ frames' = Register(frames \ {f}, f)
  /\ UNCHANGED <<store, hasCleanup, startPosRef, targetPosRef, sinceStart,
                 streams, letterEvents, submits>>
  /\ UNCHANGED sse
  /\ op' = <<"tickPaused">>

\* animate, paused phase, pause over: revealNextLetter, no further frame
TickReveal(f) ==
  /\ f \in frames
  /\ f.phase = "paused"
  /\ PauseOver(f)
  /\ Commit(revealNextLetter(store), frames \ {f}, streams, FALSE)
  /\ UNCHANGED <<letterEvents, submits>>
  /\ UNCHANGED sse
  /\ op' = <<"tickReveal">>

Next ==
  \/ CompleteIntro
  \/ \E m \in Questions : SubmitKey(m)
  \/ \E m \in Questions : SubmitChat(m)
  \/ \E l \in LetterLists : OnLetters(l)
  \/ OnError
  \/ OnDone
  \/ RequestFails
  \/ ResetSession
  \/ AdvanceTime
  \/ \E f \in frames : TickMoving(f)
  \/ \E f \in frames : TickPaused(f)
  \/ \E f \in frames : TickReveal(f)

Spec == Init /\ [][Next]_vars

\* ticks keep firing and the clock keeps advancing
Tick == \E f \in frames : TickMoving(f) \/ TickPaused(f) \/ TickReveal(f)

LiveSpec == Init /\ [][Next]_vars /\ WF_vars(Tick) /\ WF_vars(AdvanceTime)

\* Every request is answered: no request fails at network level, and the
\* server ends each response with a done event or with an error event
NextAnswered ==
  \/ CompleteIntro
  \/ \E m \in Questions : SubmitKey(m)
  \/ \E m \in Questions : SubmitChat(m)
  \/ \E l \in LetterLists : OnLetters(l)
  \/ OnError
  \/ OnDone
  \/ ResetSession
  \/ AdvanceTime
  \/ \E f \in frames : TickMoving(f)
  \/ \E f \in frames : TickPaused(f)
  \/ \E f \in frames : TickReveal(f)

LiveSpecAnswered ==
  /\ Init /\ [][NextAnswered]_vars
  /\ WF_vars(Tick) /\ WF_vars(AdvanceTime) /\ WF_vars(OnDone \/ OnError)

\* the frame callback throws before it changes anything: the registration
\* is consumed and animate never reaches its requestAnimationFrame call
TickThrows(f) ==
  /\ f \in frames
  /\ frames' = frames \ {f}
  /\ UNCHANGED <<store, hasCleanup, startPosRef, targetPosRef, sinceStart,
                 streams, letterEvents, submits>>
  /\ UNCHANGED sse
  /\ op' = <<"tickThrows">>

NextFault ==
  \/ Next
  \/ \E f \in frames : TickThrows(f)

SpecFault == Init /\ [][NextFault]_vars

\* the first question ended in an error and is asked again through the
\* keydown listener, whatever MaxSubmits is
SubmitAfterError(m) ==
  /\ store.errorMessage # NoError
  /\ submits = 1
  /\ handleKeyPress(store, m) # store
  /\ Commit(handleKeyPress(store, m), frames, streams, FALSE)
  /\ submits' = submits + 1
  /\ UNCHANGED letterEvents
  /\ UNCHANGED sse
  /\ op' = <<"submitKey">>

NextRetry ==
  \/ Next
  \/ \E m \in Questions : SubmitAfterError(m)

SpecRetry == Init /\ [][NextRetry]_vars

-----------------------------------------------------------------------------
(* The pure functions on their own: each step applies one of them to an     *)
(* input and records the input and the result in op                          *)

\* getLetterCoord(char)
\* Each of the pure functions is applied once, to one input
Lookup(char) ==
  /\ op = <<"init">>
  /\ UNCHANGED sse
  /\ op' = <<"lookup", char, getLetterCoord(char)>>
  /\ UNCHANGED <<store, frames, hasCleanup, startPosRef, targetPosRef,
                 sinceStart, streams, letterEvents, submits>>

\* positions on the board in 1/100 percent, on a grid
GridPoints ==
  {[x |-> (10000 * i) \div GridN, y |-> (10000 * j) \div GridN] :
     i \in 0..GridN, j \in 0..GridN}

\* MOVE_DURATION of a cycle from start to target
Duration(start, target) ==
  /\ op = <<"init">>
  /\ UNCHANGED sse
  /\ op' = <<"duration", <<start, target>>,
              MoveDuration(Distance(start, target))>>
  /\ UNCHANGED <<store, frames, hasCleanup, startPosRef, targetPosRef,
                 sinceStart, streams, letterEvents, submits>>

\* symbols whose cycles are examined frame by frame
FrameLetters == {"H", " ", "YES", "NO", "no", "goodbye"}

\* one moving frame of the cycle of currentLetter, elapsed ms after its start
Frame(currentLetter, start, elapsed) ==
  LET target == coordToPercent(getLetterCoord(currentLetter),
                               boardWidth, boardHeight)
      duration == MoveDuration(Distance(start, target))
  IN  /\ op = <<"init">>
      /\ UNCHANGED sse
      /\ op' = <<"frame", <<currentLetter, start, target, duration, elapsed>>,
                  MovingFrame(currentLetter, start, target, duration,
                              elapsed)>>
      /\ UNCHANGED <<store, frames, hasCleanup, startPosRef, targetPosRef,
                     sinceStart, streams, letterEvents, submits>>

\* characters a spirit message is made of
MessageChars == {"Y", "E", "S", "N", "O", "y", "!", "7", " "}

\* messages given to spell_message, as sequences of characters
Messages ==
  UNION {[1..n -> MessageChars] : n \in 0..MaxMsgLen}
    \cup {CharsOf("GOODBYE"), CharsOf("goodbye")}
    \cup {[i \in 1..n |-> IF i % 7 = 0 THEN "!" ELSE IF i % 2 = 0 THEN "o"
                           ELSE "K"] : n \in {49, 50, 51, 58, 59, 70}}

\* the class [A-Z0-9 ] of the replace in validateMessage
BoardChars ==
  {"A", "B", "C", "D", "E", "F", "G", "H", "I", "J", "K", "L", "M", "N", "O",
   "P", "Q", "R", "S", "T", "U", "V", "W", "X", "Y", "Z", "0", "1", "2", "3",
   "4", "5", "6", "7", "8", "9", " "}

IsBoardChar(c) == c \in BoardChars

\* a validation that forgets the replace
validateMessageUnfiltered(message) ==
  LET upper == [i \in DOMAIN message |-> UpperChar(message[i])]
  IN  SubSeq(upper, 1, Min(Len(upper), 50))

\* toUpperCase().replace(/[^A-Z0-9 ]/g, '').slice(0, 50)
validateMessage(message) ==
  LET upper == [i \in DOMAIN message |-> UpperChar(message[i])]
      cleaned == SelectSeq(upper, IsBoardChar)
  IN  SubSeq(cleaned, 1, Min(Len(cleaned), 50))

\* String.prototype.split(''): one array element per character
split(str) == [i \in 1..Len(str) |-> str[i]]

\* tool use completion: the letters of the 'letters' event sent for message
Spell(message) ==
  /\ op = <<"init">>
  /\ message # <<>>
  /\ UNCHANGED sse
  /\ op' = <<"spell", message, split(validateMessage(message))>>
  /\ UNCHANGED <<store, frames, hasCleanup, startPosRef, targetPosRef,
                 sinceStart, streams, letterEvents, submits>>

\* persist: the part of the state kept in localStorage, and its merge into
\* the state after construction. lastActivityTimestamp is read by merge alone
\* and no action of the store depends on it, so it is carried here only.
CONVERSATION_TIMEOUT == 5 * 60 * 1000

PersistedFields ==
  {"conversationHistory", "spiritName", "hasCompletedIntro",
   "lastActivityTimestamp"}

\* the state after construction at time now
CurrentState(now) ==
  [f \in DOMAIN InitialStore \cup {"lastActivityTimestamp"} |->
     IF f = "lastActivityTimestamp" THEN now ELSE InitialStore[f]]

partialize(state) == [f \in PersistedFields |-> state[f]]

\* a null persistedState
NullState == [null |-> TRUE]

\* a merge that never expires a session
mergeWithoutTimeout(persistedState, currentState, now) ==
  IF persistedState = NullState THEN currentState
  ELSE LET state == persistedState
           Has(f) == f \in DOMAIN state
           hasValidSession ==
             /\ Has("spiritName") /\ state.spiritName \notin {NoName, ""}
             /\ \/ Has("hasCompletedIntro") /\ state.hasCompletedIntro
                \/ /\ Has("conversationHistory")
                   /\ Len(state.conversationHistory) > 0
       IN  IF ~hasValidSession THEN currentState
           ELSE [currentState EXCEPT
                   !.conversationHistory =
                      IF Has("conversationHistory")
                      THEN state.conversationHistory ELSE <<>>,
                   !.spiritName = state.spiritName,
                   !.hasCompletedIntro = TRUE,
                   !.lastActivityTimestamp =
                      IF Has("lastActivityTimestamp")
                           /\ state.lastActivityTimestamp # 0
                      THEN state.lastActivityTimestamp ELSE now]

\* merge(persistedState, currentState) with Date.now() = now; a field that is
\* undefined is a field the record does not have
merge(persistedState, currentState, now) ==
  IF persistedState = NullState THEN currentState
  ELSE LET state == persistedState
           Has(f) == f \in DOMAIN state
           timeSinceLastActivity ==
             now - (IF Has("lastActivityTimestamp")
                    THEN state.lastActivityTimestamp ELSE 0)
           hasValidSession ==
             /\ Has("spiritName") /\ state.spiritName \notin {NoName, ""}
             /\ \/ Has("hasCompletedIntro") /\ state.hasCompletedIntro
                \/ /\ Has("conversationHistory")
                   /\ Len(state.conversationHistory) > 0
       IN  IF timeSinceLastActivity > CONVERSATION_TIMEOUT THEN currentState
           ELSE IF ~hasValidSession THEN currentState
           ELSE [currentState EXCEPT
                   !.conversationHistory =
                      IF Has("conversationHistory")
                      THEN state.conversationHistory ELSE <<>>,
                   !.spiritName = state.spiritName,
                   !.hasCompletedIntro = TRUE,
                   !.lastActivityTimestamp =
                      IF Has("lastActivityTimestamp")
                           /\ state.lastActivityTimestamp # 0
                      THEN state.lastActivityTimestamp ELSE now]

\* Date.now() at rehydration: far later than CONVERSATION_TIMEOUT
Clock == {2 * CONVERSATION_TIMEOUT}

\* what localStorage can hold at time now: nothing, or what partialize wrote
\* of a state of the store, possibly with one field lost, and with fields
\* partialize does not write
StoredStates(now) ==
  LET written ==
        [conversationHistory : {<<>>, <<[role |-> "user", content |-> <<"q">>]>>},
         spiritName : {NoName, "", "Zozo"},
         hasCompletedIntro : BOOLEAN,
         lastActivityTimestamp :
           {0, now - CONVERSATION_TIMEOUT - 1, now - CONVERSATION_TIMEOUT,
            now - 1, now + 1},
         turn : {"spirit"},
         planchette : {[position |-> [x |-> 0, y |-> 0],
                        rotation |-> ZeroAngle]}]
      lost == {{}} \cup {{f} : f \in PersistedFields}
                   \cup {{"turn", "planchette"}}
  IN  {NullState, partialize(CurrentState(now - 1))} \cup
      {[f \in (DOMAIN w) \ l |-> w[f]] : w \in written, l \in lost}

\* rehydration of the store on page load
Rehydrate(persistedState, now) ==
  /\ op = <<"init">>
  /\ UNCHANGED sse
  /\ op' = <<"merge", <<persistedState, now>>,
              merge(persistedState, CurrentState(now), now)>>
  /\ UNCHANGED <<store, frames, hasCleanup, startPosRef, targetPosRef,
                 sinceStart, streams, letterEvents, submits>>

\* positions in 1/FineUnit of 1/100 percent: grid points, and points next to
\* them closer than, at and beyond the 0.01 of bezierCurve
FineStarts == {[x |-> FineUnit * p.x, y |-> FineUnit * p.y] : p \in GridPoints}

FineSteps ==
  {[x |-> 0, y |-> 0], [x |-> FineUnit - 1, y |-> 0],
   [x |-> 0, y |-> 1 - FineUnit], [x |-> FineUnit \div 2, y |-> FineUnit \div 2],
   [x |-> FineUnit, y |-> 0], [x |-> 0 - FineUnit, y |-> FineUnit],
   [x |-> 300 * FineUnit, y |-> 400 * FineUnit]}

\* bezierCurve(start, end, t) for t in percent and positions in 1/unit of
\* 1/100 percent
Curve(unit, start, end, t) ==
  /\ op = <<"init">>
  /\ UNCHANGED sse
  /\ op' = <<"curve", <<start, end, t, unit>>,
              bezierCurveAt(unit, start, end, t)>>
  /\ UNCHANGED <<store, frames, hasCleanup, startPosRef, targetPosRef,
                 sinceStart, streams, letterEvents, submits>>

\* easeOutCubic(t) and easeInOutCubic(t) for t in percent
Ease(t) ==
  /\ op = <<"init">>
  /\ UNCHANGED sse
  /\ op' = <<"ease", t, <<easeOutCubic(t), easeInOutCubic(t)>>>>
  /\ UNCHANGED <<store, frames, hasCleanup, startPosRef, targetPosRef,
                 sinceStart, streams, letterEvents, submits>>

NextUnits ==
  \/ \E char \in Strings : Lookup(char)
  \/ \E start \in GridPoints, target \in GridPoints : Duration(start, target)
  \/ \E currentLetter \in FrameLetters, start \in GridPoints,
        elapsed \in {0, TimeStep, 2 * TimeStep, MAX_DURATION} :
       Frame(currentLetter, start, elapsed)
  \/ \E message \in Messages : Spell(message)
  \/ \E now \in Clock : \E persistedState \in StoredStates(now) :
       Rehydrate(persistedState, now)
  \/ \E start \in FineStarts, step \in FineSteps, t \in {0, 50, 100} :
       Curve(FineUnit, start,
             [x |-> start.x + step.x, y |-> start.y + step.y], t)
  \/ \E start \in GridPoints, end \in GridPoints, t \in {0, 50, 100} :
       Curve(1, start, end, t)
  \/ \E t \in 0..100 : Ease(t)

SpecUnits == Init /\ [][NextUnits]_vars

-----------------------------------------------------------------------------
(* Properties *)

TypeOK ==
  /\ store.turn \in {"user", "spirit", "animating"}
  /\ store.animation.isAnimating \in BOOLEAN
  /\ store.animation.currentLetterIndex \in 0..MaxLen
  /\ submits \in 0..MaxSubmits
  /\ letterEvents \in 0..MaxLetterEvents

anim == store.animation

Targets ==
  {coordToPercent(getLetterCoord(c), boardWidth, boardHeight) : c \in Symbols}

IsPrefix(p, q) == Len(p) <= Len(q) /\ p = SubSeq(q, 1, Len(p))

AssistantCount(h) == Cardinality({k \in DOMAIN h : h[k].role = "assistant"})

Drained ==
  /\ ~anim.isAnimating
  /\ Join(anim.revealedLetters) = Join(anim.letterQueue)
  /\ store.turn = "user"

\* C1: every list installed by a letters event on the mounted board, unless
\* an error, a reset or another letters event interrupts it, is eventually
\* fully revealed with isAnimating false and turn 'user', provided ticks keep
\* firing.
C1_DrainsFully ==
  \A n \in 1..MaxLetterEvents :
    (op[1] = "onLetters" /\ letterEvents = n /\ store.hasCompletedIntro)
      ~> (\/ Drained
          \/ letterEvents > n
          \/ op[1] \in {"onError", "resetSession"})

\* C2: between ticks the cursor never exceeds the queue length and the
\* number of revealed letters equals the cursor, also after the last reveal.
C2_QueueInvariant ==
  /\ anim.currentLetterIndex <= Len(anim.letterQueue)
  /\ Len(anim.revealedLetters) = anim.currentLetterIndex

\* C3: every pending frame callback belongs to the current effect run and
\* to the letter under the cursor of the installed queue, and a letters
\* event with a non-empty list leaves exactly one registration, in the
\* moving phase, for the first symbol of the new queue.
C3_CancelAndRestart ==
  /\ [](\A f \in frames :
          /\ ~f.stale
          /\ anim.isAnimating
          /\ f.letter = LetterAt(anim.letterQueue, anim.currentLetterIndex))
  /\ [][(op'[1] = "onLetters" /\ store'.hasCompletedIntro
           /\ store'.animation.letterQueue # <<>>)
        => /\ Cardinality(frames') = 1
           /\ \A f \in frames' :
                /\ f.phase = "moving"
                /\ f.letter = store'.animation.letterQueue[1]
                /\ ~f.stale
           /\ sinceStart' = 0]_vars

C3_Witness ==
  /\ op[1] = "onLetters"
  /\ letterEvents >= 2
  /\ frames # {}
  /\ startPosRef \notin (Targets \cup {Center})

\* C4: the revealed letters are always a prefix of the installed queue; a
\* letter is appended, and an assistant message stored, only by the callback
\* of the current cycle after that cycle's own move and pause; an error or
\* letters event leaves nothing revealed and stores no message.
C4_CancellationTotal ==
  /\ [](IsPrefix(anim.revealedLetters, anim.letterQueue))
  /\ [][(\/ Len(store'.animation.revealedLetters) > Len(anim.revealedLetters)
         \/ AssistantCount(store'.conversationHistory)
              > AssistantCount(store.conversationHistory))
        => \E f \in frames :
             /\ ~f.stale
             /\ f.phase = "paused"
             /\ f.sincePause >= PAUSE_DURATION
             /\ sinceStart >= f.moveDuration
             /\ f.letter # Undefined
             /\ f.letter = LetterAt(anim.letterQueue, anim.currentLetterIndex)
             /\ store'.animation.revealedLetters
                  = Append(anim.revealedLetters, f.letter)
             /\ store'.animation.letterQueue = anim.letterQueue]_vars
  /\ [][op'[1] \in {"onError", "onLetters"}
        => /\ store'.animation.revealedLetters = <<>>
           /\ store'.conversationHistory = store.conversationHistory]_vars

C4_Witness ==
  /\ op[1] \in {"onError", "onLetters"}
  /\ letterEvents >= 1
  /\ store.planchette.position \notin (Targets \cup {Center})
  /\ AssistantCount(store.conversationHistory) = 0
  /\ anim.revealedLetters = <<>>

\* C5: after the error callback no registration is pending, the queue is
\* empty, isAnimating is false and turn is 'user'.
C5_CancelContract ==
  op[1] = "onError"
    => /\ frames = {}
       /\ anim.letterQueue = <<>>
       /\ anim.revealedLetters = <<>>
       /\ ~anim.isAnimating
       /\ store.turn = "user"

C5_Witness ==
  /\ op[1] = "onError"
  /\ store.hasCompletedIntro
  /\ store.planchette.position # Center
  /\ frames = {}

\* C6: after a frame callback threw, no registration is pending and turn is
\* 'user'.
C6_TickFailureRecovers ==
  op[1] = "tickThrows" => (frames = {} /\ store.turn = "user")

\* C7: turn is one of the three values and changes only user->spirit on a
\* submission, spirit->animating on a letters event, animating->user on the
\* final reveal, or to user on an error.
C7_TurnTransitions ==
  [][/\ store'.turn \in {"user", "spirit", "animating"}
     /\ store'.turn # store.turn
        => \/ /\ store.turn = "user" /\ store'.turn = "spirit"
              /\ op'[1] \in {"submitKey", "submitChat"}
           \/ /\ store.turn = "spirit" /\ store'.turn = "animating"
              /\ op'[1] = "onLetters"
           \/ /\ store.turn = "animating" /\ store'.turn = "user"
              /\ op'[1] = "tickReveal"
              /\ store'.animation.revealedLetters
                   = store'.animation.letterQueue
           \/ /\ store'.turn = "user"
              /\ op'[1] = "onError"]_vars

\* C7 amended: as C7, and a letters event sets animating from any turn, and
\* a session reset sets user from any turn.
C7_TurnTransitionsAmended ==
  [][/\ store'.turn \in {"user", "spirit", "animating"}
     /\ store'.turn # store.turn
        => \/ /\ store.turn = "user" /\ store'.turn = "spirit"
              /\ op'[1] \in {"submitKey", "submitChat"}
           \/ /\ store'.turn = "animating"
              /\ op'[1] = "onLetters"
           \/ /\ store.turn = "animating" /\ store'.turn = "user"
              /\ op'[1] = "tickReveal"
              /\ store'.animation.revealedLetters
                   = store'.animation.letterQueue
           \/ /\ store'.turn = "user"
              /\ op'[1] \in {"onError", "resetSession"}]_vars

C7_Witness ==
  /\ op[1] = "resetSession"
  /\ streams > 0
  /\ store.turn = "user"

C9_IncrementalReveal ==
  /\ [](anim.isAnimating
          => /\ store.turn = "animating"
             /\ anim.revealedLetters
                  = SubSeq(anim.letterQueue, 1, anim.currentLetterIndex)
             /\ anim.letterQueue # <<>>
                  => anim.currentLetterIndex < Len(anim.letterQueue))
  /\ [][op'[1] = "tickReveal"
        => /\ store'.animation.revealedLetters
                = SubSeq(anim.letterQueue, 1, anim.currentLetterIndex + 1)
           /\ (store'.turn = "user")
                <=> (anim.currentLetterIndex + 1 = Len(anim.letterQueue))
           /\ (store'.turn = "animating")
                <=> (anim.currentLetterIndex + 1 < Len(anim.letterQueue))
           /\ store'.animation.currentLetterIndex
                = Min(anim.currentLetterIndex + 1,
                      Len(anim.letterQueue) - 1)]_vars

C9_Witness ==
  /\ op[1] = "tickReveal"
  /\ anim.isAnimating
  /\ store.turn = "animating"
  /\ anim.currentLetterIndex = 1
  /\ Len(anim.letterQueue) = 2
  /\ anim.revealedLetters = <<anim.letterQueue[1]>>

\* C10: an assistant message is stored exactly by the reveal of the last
\* symbol of the installed queue, one message per such reveal, and its
\* content is the join of the queue's symbols in order.
C10_MessageHandOff ==
  [][LET final == /\ op'[1] = "tickReveal"
                  /\ anim.currentLetterIndex + 1 >= Len(anim.letterQueue)
     IN  /\ final
            => /\ store'.conversationHistory
                    = Append(store.conversationHistory,
                             [role |-> "assistant",
                              content |-> Join(anim.letterQueue)])
               /\ ~store'.animation.isAnimating
               /\ frames' = {}
         /\ (~final /\ op'[1] # "resetSession")
            => AssistantCount(store'.conversationHistory)
                 = AssistantCount(store.conversationHistory)]_vars

C10_Witness ==
  /\ op[1] = "tickReveal"
  /\ ~anim.isAnimating
  /\ Len(anim.letterQueue) = 2
  /\ store.conversationHistory # <<>>
  /\ store.conversationHistory[Len(store.conversationHistory)]
       = [role |-> "assistant", content |-> Join(anim.letterQueue)]


\* C11: at most one frame registration is pending at any moment, and exactly
\* one while the mounted board is animating a symbol of the queue (moving or
\* paused); none otherwise.
C11_SingleRegistration ==
  /\ Cardinality(frames) <= 1
  /\ (Cardinality(frames) = 1)
       <=> /\ store.hasCompletedIntro
           /\ anim.isAnimating
           /\ LetterAt(anim.letterQueue, anim.currentLetterIndex) # Undefined
  /\ \A f \in frames : f.latest /\ f.phase \in {"moving", "paused"}

C11_Witness ==
  /\ letterEvents >= 2
  /\ Cardinality(frames) = 1
  /\ \E f \in frames : f.phase = "paused"
  /\ anim.currentLetterIndex = 1

\* C12: whenever the scheduler is idle (not animating, or the board is not
\* mounted) no registration is pending; the final reveal, the error
\* callback and a session reset leave none; and a frame callback only ever
\* runs for the cycle of the letter under the cursor while animating.
C12_NoTicksWhileIdle ==
  /\ []((~anim.isAnimating \/ ~store.hasCompletedIntro) => frames = {})
  /\ [][(\/ op'[1] \in {"onError", "resetSession"}
         \/ (op'[1] = "tickReveal" /\ ~store'.animation.isAnimating))
        => frames' = {}]_vars
  /\ [][op'[1] \in {"tickMoving", "tickPaused", "tickReveal"}
        => /\ anim.isAnimating
           /\ store.hasCompletedIntro
           /\ \E f \in frames :
                /\ ~f.stale
                /\ f.letter = LetterAt(anim.letterQueue,
                                       anim.currentLetterIndex)]_vars

\* a reset that tore the board down while its only cycle was in flight
C12_Witness ==
  /\ op[1] = "resetSession"
  /\ frames = {}
  /\ letterEvents = 1
  /\ streams > 0
  /\ streams = submits
  /\ sinceStart = 0
  /\ targetPosRef # Center


\* C13: the error callback stops the animation and leaves the pointer's
\* position and rotation as they were; nothing but a frame callback or a
\* session reset moves the pointer; and the first move of the next letters
\* event starts from the pointer's position, which is therefore the
\* position at the moment of cancellation.
C13_CancelPreservesPointer ==
  /\ [][op'[1] = "onError"
        => /\ ~store'.animation.isAnimating
           /\ store'.planchette = store.planchette]_vars
  /\ [][op'[1] \notin {"tickMoving", "resetSession"}
        => store'.planchette = store.planchette]_vars
  /\ [][(op'[1] = "onLetters" /\ store'.hasCompletedIntro
           /\ op'[2] # <<>>)
        => /\ startPosRef' = store.planchette.position
           /\ \A f \in frames' :
                f.moveDuration
                  = MoveDuration(Distance(store.planchette.position,
                                          targetPosRef'))]_vars

C13_Witness ==
  /\ op[1] = "onLetters"
  /\ store.errorMessage # NoError
  /\ frames # {}
  /\ startPosRef = store.planchette.position
  /\ startPosRef \notin (Targets \cup {Center})


\* C14: after the chat request failed at network level the error message is
\* set, turn is 'user' and the animation state is cleared.
C14_NetworkErrorRecovers ==
  op[1] = "requestFails"
    => /\ store.errorMessage # NoError
       /\ store.turn = "user"
       /\ ~anim.isAnimating
       /\ anim.letterQueue = <<>>


UserCount(h) == Cardinality({k \in DOMAIN h : h[k].role = "user"})

C20_LookupTotal ==
  op[1] = "lookup"
    => /\ op[3] \in {LETTER_COORDS[k] : k \in DOMAIN LETTER_COORDS}
       /\ (\A k \in DOMAIN LETTER_COORDS :
              CharsOf(k) # [i \in DOMAIN CharsOf(op[2])
                             |-> UpperChar(CharsOf(op[2])[i])])
            => op[3] = LETTER_COORDS[" "]
       /\ \A k \in DOMAIN LETTER_COORDS :
            CharsOf(k) = [i \in DOMAIN CharsOf(op[2])
                           |-> UpperChar(CharsOf(op[2])[i])]
              => op[3] = LETTER_COORDS[k]
       /\ op[2] = "yes" => op[3] = LETTER_COORDS["YES"]
       /\ op[2] \in {"%", ""} => op[3] = LETTER_COORDS[" "]

C20_Witness ==
  /\ op[1] = "lookup"
  /\ op[2] = "yes"
  /\ op[3] = [x |-> -79892, y |-> -47305]

\* C16: when the spirit's message is exactly YES, NO or GOODBYE the letters
\* event carries it as one element, the token itself; every other message is
\* carried as its individual characters.
SpecialTokens == {"YES", "NO", "GOODBYE"}

C16_SpecialTokensUnsplit ==
  op[1] = "spell" =>
    IF \E t \in SpecialTokens : CharsOf(t) = op[2]
    THEN \E t \in SpecialTokens : CharsOf(t) = op[2] /\ op[3] = <<t>>
    ELSE op[3] = validateMessage(op[2])

\* C17: rehydration restores the persisted conversationHistory and spiritName,
\* with hasCompletedIntro true, exactly when the persisted
\* lastActivityTimestamp is at most CONVERSATION_TIMEOUT old and the persisted
\* session has a spirit name and a completed intro or a message; otherwise the
\* state after construction is returned as it is; planchette, animation and
\* turn are those of the state after construction in every case.
C17_RestoreWindow ==
  op[1] = "merge" =>
    LET state == op[2][1]
        now == op[2][2]
        result == op[3]
        Has(f) == f \in DOMAIN state
        recent == /\ Has("lastActivityTimestamp")
                  /\ now - state.lastActivityTimestamp <= CONVERSATION_TIMEOUT
        named == Has("spiritName") /\ state.spiritName \notin {NoName, ""}
        begun == \/ Has("hasCompletedIntro") /\ state.hasCompletedIntro
                 \/ /\ Has("conversationHistory")
                    /\ state.conversationHistory # <<>>
    IN  /\ IF state # NullState /\ recent /\ named /\ begun
           THEN /\ result.spiritName = state.spiritName
                /\ Has("conversationHistory") =>
                     result.conversationHistory = state.conversationHistory
                /\ result.conversationHistory # <<>> =>
                     Has("conversationHistory")
                /\ result.hasCompletedIntro
           ELSE result = CurrentState(now)
        /\ result.planchette = InitialStore.planchette
        /\ result.animation = InitialStore.animation
        /\ result.turn = InitialStore.turn

C17_Witness ==
  /\ op[1] = "merge"
  /\ op[2][1] # NullState
  /\ DOMAIN op[2][1]
       = (PersistedFields \cup {"turn", "planchette"}) \ {"hasCompletedIntro"}
  /\ op[2][2] - op[2][1].lastActivityTimestamp = CONVERSATION_TIMEOUT
  /\ op[2][1].turn = "spirit"
  /\ op[3].conversationHistory # <<>>
  /\ op[3].spiritName = "Zozo"
  /\ op[3].hasCompletedIntro
  /\ op[3].turn = "user"

\* C18: the move duration of any two positions, identical ones included,
\* lies within [MIN_DURATION, MAX_DURATION] and is never shorter than the
\* duration of a distance that is not longer.
GridDistances == {Distance(p, q) : p \in GridPoints, q \in GridPoints}

C18_DurationBounds ==
  op[1] = "duration" =>
    /\ MIN_DURATION <= op[3] /\ op[3] <= MAX_DURATION
    /\ \A d \in GridDistances :
         d <= Distance(op[2][1], op[2][2]) => MoveDuration(d) <= op[3]

C18_Witness ==
  /\ op[1] = "duration"
  /\ op[2][1] = op[2][2]
  /\ op[3] = MIN_DURATION
  /\ \E d \in GridDistances : MoveDuration(d) = MAX_DURATION

C21_EndpointsExact ==
  op[1] = "curve" =>
    LET start == op[2][1]
        end == op[2][2]
        t == op[2][3]
        unit == op[2][4]
    IN  /\ t = 0 => op[3] = start
        /\ t = 100 => op[3] = end
        /\ Distance(start, end) < unit => op[3] = start

\* C21, amended: bezierCurve(start, end, 0) is start for every pair;
\* bezierCurve(start, end, 1) is end for every pair at distance 0.01 or more;
\* for a closer pair the result is start for every t, so that at t = 1 it is
\* off end by the pair's distance, less than 0.01.
C21_EndpointsExactAmended ==
  op[1] = "curve" =>
    LET start == op[2][1]
        end == op[2][2]
        t == op[2][3]
        unit == op[2][4]
    IN  /\ t = 0 => op[3] = start
        /\ t = 100 /\ Distance(start, end) >= unit => op[3] = end
        /\ Distance(start, end) < unit =>
             /\ op[3] = start
             /\ (end.x - op[3].x) * (end.x - op[3].x)
                  + (end.y - op[3].y) * (end.y - op[3].y) < unit * unit

C21_Witness ==
  /\ op[1] = "curve"
  /\ op[2][3] = 100
  /\ op[2][1] # op[2][2]
  /\ Distance(op[2][1], op[2][2]) < op[2][4]
  /\ op[3] = op[2][1]
  /\ op[3] # op[2][2]

\* C22: easeOutCubic and easeInOutCubic are 0 at 0 and 1 at 1, stay within
\* [0, 1], and are non-decreasing on [0, 1], across t = 0.5 too.
C22_EasingBounds ==
  op[1] = "ease" =>
    LET t == op[2]
    IN  /\ t = 0 => op[3] = <<0, 0>>
        /\ t = 100 => op[3] = <<100, 100>>
        /\ op[3][1] \in 0..100 /\ op[3][2] \in 0..100
        /\ \A u \in 0..t : /\ easeOutCubic(u) <= op[3][1]
                            /\ easeInOutCubic(u) <= op[3][2]

C22_Witness ==
  /\ op[1] = "ease"
  /\ op[2] = 50
  /\ op[3][2] = 50
  /\ easeInOutCubic(49) < op[3][2]
  /\ op[3][1] > op[3][2]

\* C24: every element of a letters event of the chat handler is one character
\* out of A-Z, 0-9 and the space, an event has at most 50 elements, and so
\* every element has an entry of its own in the coordinate table.
Letters26 ==
  {"A", "B", "C", "D", "E", "F", "G", "H", "I", "J", "K", "L", "M", "N", "O",
   "P", "Q", "R", "S", "T", "U", "V", "W", "X", "Y", "Z"}

Digits10 == {"0", "1", "2", "3", "4", "5", "6", "7", "8", "9"}

C27_OneRequestPerQuestion ==
  [][/\ submits' = submits + 1 <=> op'[1] \in {"submitKey", "submitChat"}
     /\ CASE op'[1] \in {"submitKey", "submitChat"} ->
               /\ store'.turn = "spirit"
               /\ streams' = IF store.hasCompletedIntro THEN streams + 1
                              ELSE streams
          [] op'[1] = "completeIntro" ->
               streams' = IF store.turn = "spirit" THEN streams + 1
                          ELSE streams
          [] op'[1] \in {"onError", "onDone", "requestFails"} ->
               streams' = streams - 1
          [] OTHER -> streams' = streams]_vars

C27_Witness ==
  /\ op[1] = "completeIntro"
  /\ streams = 1
  /\ submits = 1
  /\ store.turn = "spirit"
  /\ store.userMessage \in Questions

C26_TurnAgreesWithAnimation ==
  store.turn = "animating" <=> anim.isAnimating

C26_Witness ==
  /\ op[1] = "tickReveal"
  /\ store.turn = "user"
  /\ ~anim.isAnimating
  /\ Len(anim.letterQueue) = 2
  /\ anim.revealedLetters = anim.letterQueue
  /\ streams = 1

\* C25: once a request is in flight for a submitted question, turn is 'user'
\* again at some later time, whatever the server answers.
C25_TurnComesBack ==
  (store.turn = "spirit" /\ streams > 0) ~> (store.turn = "user")

\* C28: a letters or error event that arrives while the store is a freshly
\* reset session with a request still open (the request was issued before
\* the reset: a fresh session has submitted no question of its own) leaves
\* the new session untouched: turn stays 'user', the animation stays
\* cleared, the pointer stays at center, conversationHistory stays empty.
FreshSession == store = resetSession(store)

C28_ResetIsolation ==
  [][(FreshSession /\ streams > 0 /\ op'[1] \in {"onLetters", "onError"})
       => /\ store'.turn = "user"
          /\ store'.animation = InitialStore.animation
          /\ store'.planchette.position = Center
          /\ store'.conversationHistory = <<>>]_vars

-----------------------------------------------------------------------------
(* sendChatMessage reading one response *)

OtherVars ==
  <<store, frames, hasCleanup, startPosRef, targetPosRef, sinceStart,
    streams, letterEvents, submits>>

\* fetch resolves with a response; decoder and buffer are fresh
Fetch(events) ==
  /\ op = <<"init">>
  /\ sse = NoResponse
  /\ sse' = [status |-> "reading", response |-> events, pos |-> 0,
             pending |-> <<>>, buffer |-> <<>>, calls |-> <<>>]
  /\ UNCHANGED OtherVars
  /\ op' = <<"fetch">>

\* one turn of the loop: reader.read() resolves with the next n bytes
Read(n) ==
  /\ sse.status = "reading"
  /\ sse.pos + n <= Len(ResponseBytes[sse.response])
  /\ \E value \in {SubSeq(ResponseBytes[sse.response], sse.pos + 1,
                          sse.pos + n)} :
       \E decoded \in {decode(sse.pending, value)} :
         \E lines \in {splitBlankLines(sse.buffer \o decoded.text)} :
           \E result \in {Dispatch(SubSeq(lines, 1, Len(lines) - 1), 1,
                                   sse.calls)} :
             sse' = [sse EXCEPT
                       !.status = IF result.threw THEN "rejected" ELSE @,
                       !.pos = @ + n,
                       !.pending = decoded.pending,
                       !.buffer = pop(lines),
                       !.calls = result.calls]
  /\ UNCHANGED OtherVars
  /\ op' = <<"read">>

\* reader.read() resolves with done: the loop breaks, the lock is released
ReadDone ==
  /\ sse.status = "reading"
  /\ sse.pos = Len(ResponseBytes[sse.response])
  /\ sse' = [sse EXCEPT !.status = "resolved"]
  /\ UNCHANGED OtherVars
  /\ op' = <<"readDone">>

\* the bytes of the response not yet read
Unread ==
  IF sse.status = "reading"
  THEN Len(ResponseBytes[sse.response]) - sse.pos
  ELSE 0

NextSSE ==
  \/ \E events \in Responses : Fetch(events)
  \/ \E n \in 1..Unread : Read(n)
  \/ ReadDone

SpecSSE == Init /\ [][NextSSE]_vars

\* the events of the response that lie wholly within its first pos bytes
Arrived(events, pos) ==
  SubSeq(events, 1, Cardinality({i \in 1..Len(events) :
                                   EventEnds[events][i] <= pos}))

Unparsable(e) ==
  \E i \in 1..Len(Stringified[e.data]) :
    Stringified[e.data][i] \in LineTerminators

\* the events before the first one the reader cannot parse
Parsable(events) ==
  SubSeq(events, 1, Cardinality({i \in 1..Len(events) :
                                   \A j \in 1..i : ~Unparsable(events[j])}))

====
